---- MODULE Spec2Model ----
\* A model of the ship HTTP framework's dispatcher (type Ship): the shutdown
\* lifecycle (Link, RegisterOnShutdown, Start, the shutdown trigger, the
\* callback run, Wait), the request pipeline (Pre, handleRequest, the context
\* pool, the default error handler), virtual hosts, and the exit functions
\* of package utils.
EXTENDS Integers, Sequences, FiniteSets, TLC

\* ---------------------------------------------------------------- bounds
\* Two dispatchers, so that Link has a pair to act on.
Ships == {"X", "Y"}
\* User callbacks registered with RegisterOnShutdown, over all dispatchers.
MaxFns == 2
\* Callers of Wait, over all dispatchers.
MaxWaiters == 2
\* Calls of the public Shutdown, over all dispatchers.
MaxPublicShutdown == 1
\* Start calls on one dispatcher after its first has returned.
MaxRestarts == 1

\* The pre-middlewares there are to register.
Mws == {"A", "B"}
\* Pre calls, and pre-middlewares registered over all of them.
MaxPre == 2
\* Requests handled, concurrently or one after another.
MaxReqs == 2
\* Calls of the default error handler.
MaxErrCalls == 2
\* Requests given to ServeHTTP.
MaxServed == 1
\* VHost calls that panic.
MaxVPanics == 1
\* Calls of handleRequestRoute.
MaxResolved == 2
\* Routes and Groups made.
MaxMade == 2
\* Functions registered with OnExit (nil ones included).
MaxExitFns == 2
\* Calls of CallOnExit and Exit.
MaxCalls == 3
\* The parameter counts of the routes there are to register.
MaxParams == 2

\* The goroutines http.Server.Shutdown starts for Ship.stop: one per call of
\* server.Shutdown, which the trigger makes at most once and the public
\* Shutdown at most MaxPublicShutdown times.
StopIds == 1..(MaxPublicShutdown + 1)

VARIABLES
    links,        \* Ship.links: the linked peers, in order
    stopfs,       \* Ship.stopfs: the shutdown callbacks (*stopT), in order
    server,       \* Ship.server: 0 is nil, n the *http.Server of the n-th Start
    once1,        \* Ship.once1 (shutdown): TRUE once Do has run its function
    once2,        \* Ship.once2 (stop): "idle", "running", "done"
    done,         \* Ship.done: the number of times the channel was closed
    lock,         \* Ship.lock: [w |-> write-held, r |-> readers]
    inShutdown,   \* the recorded http.Server: Shutdown has been called
    spawned,      \* the recorded http.Server: goroutines started for s.stop
    startpc,      \* the goroutine in Start/startServer
    linkIdx,      \* startServer's position in its range over s.links
    linkLen,      \* the length of the slice startServer ranges over
    sigpc,        \* the goroutine in handleSignals
    stoppc,       \* the goroutines running Ship.stop
    runIdx,       \* runStop's position in its range over s.stopfs
    runLen,       \* the length of the slice runStop ranges over
    ranLog,       \* history: the callbacks invoked, as indices of stopfs
    trigShut,     \* history: server.Shutdown calls made through the trigger
    trigStarted,  \* history: the trigger was invoked with a server recorded
    trigStarting, \* history: the trigger was invoked after Start was entered
    nextFn,       \* the next user callback to register
    waiting,      \* callers blocked in Wait
    returned,     \* callers Wait has returned to
    pubCalls,     \* public Shutdown calls made
    premiddlewares, \* Ship.premiddlewares, in registration order
    handler,      \* Ship.handler: the layers of the root handler, outermost
                  \* first, "route" (handleRequestRoute) innermost
    preCalls,     \* Pre calls made
    pool,         \* Ship.ctxpool: the contexts that are free
    nextCtx,      \* the next context ctxpool.New creates
    ctxs,         \* the contexts: [err |-> error slot, req |-> bound request,
                  \* data |-> whose parameters and store entries it holds,
                  \* cap |-> the size of its parameter storage]
    reqs,         \* the requests: where handleRequest is, and what it saw
    maxNum,       \* Ship.maxNum: the largest parameter count of a route
    errLog,       \* history: the calls of the default error handler
    vhosts,       \* Ship.vhosts: [nil |-> it is nil, m |-> host to dispatcher]
    unborn,       \* the dispatchers New has not yet made
    pipeline,     \* per dispatcher: premiddlewares, handler, middlewares, routes
    served,       \* history: the requests ServeHTTP has handled
    restarts,     \* Start calls made on a dispatcher after its first returned
    funcs,        \* utils.funcs: the exit functions, in registration order
    exited,       \* utils.exited: 0 or 1
    expc,         \* the goroutines in CallOnExit or Exit: [pc, exit |-> in Exit]
    exIdx,        \* CallOnExit's loop variable _len, per goroutine
    exRan,        \* history: the exit functions run, as indices of funcs
    exCalls,      \* history: calls of CallOnExit and Exit begun
    osExited,     \* os.Exit has been called: the process is gone
    lnk,          \* the goroutines in Link: [pc, s, other, seen]
    made,         \* history: the Routes and Groups made, with their middlewares
    resolved,     \* history: the calls of handleRequestRoute
    vpanics,      \* history: VHost calls that panicked
    cloned,       \* Config.Signals is empty: the dispatcher was made by Clone
    lastShutdown  \* history: the last public Shutdown, [on, err]

shipVars == <<links, stopfs, server, once1, once2, done, lock, inShutdown,
              spawned>>
procVars == <<startpc, linkIdx, linkLen, sigpc, stoppc, runIdx, runLen>>
histVars == <<ranLog, trigShut, trigStarted, trigStarting>>
envVars == <<nextFn, waiting, returned, pubCalls, lastShutdown>>
lifeVars == <<shipVars, procVars, histVars, envVars>>

reqVars == <<premiddlewares, handler, preCalls, pool, nextCtx, ctxs, reqs>>

hostVars == <<vhosts, unborn, pipeline, served>>
exitVars == <<funcs, exited, expc, exIdx, exRan, exCalls, osExited>>
auxVars == <<lnk, made, resolved, vpanics, cloned>>
extVars == <<maxNum, errLog, hostVars, restarts, exitVars, auxVars>>

vars == <<lifeVars, reqVars, extVars>>

\* ------------------------------------------------------------ Ship state
\* New: every field at its zero value; done is an open channel.
LifeInit ==
    /\ links = [s \in Ships |-> <<>>]
    /\ stopfs = [s \in Ships |-> <<>>]
    /\ server = [s \in Ships |-> 0]
    /\ once1 = [s \in Ships |-> FALSE]
    /\ once2 = [s \in Ships |-> "idle"]
    /\ done = [s \in Ships |-> 0]
    /\ lock = [s \in Ships |-> [w |-> FALSE, r |-> 0]]
    /\ inShutdown = [s \in Ships |-> FALSE]
    /\ spawned = [s \in Ships |-> 0]
    /\ startpc = [s \in Ships |-> "idle"]
    /\ linkIdx = [s \in Ships |-> 0]
    /\ linkLen = [s \in Ships |-> 0]
    /\ sigpc = [s \in Ships |-> "off"]
    /\ stoppc = [s \in Ships |-> [k \in StopIds |-> "none"]]
    /\ runIdx = [s \in Ships |-> 0]
    /\ runLen = [s \in Ships |-> 0]
    /\ ranLog = [s \in Ships |-> <<>>]
    /\ trigShut = [s \in Ships |-> 0]
    /\ trigStarted = [s \in Ships |-> FALSE]
    /\ trigStarting = [s \in Ships |-> FALSE]
    /\ nextFn = 1
    /\ waiting = [s \in Ships |-> 0]
    /\ returned = [s \in Ships |-> 0]
    /\ pubCalls = 0
    /\ lastShutdown = [on |-> "", err |-> ""]

\* sync.RWMutex: Lock needs no holder at all, RLock no writer.
CanLock(s) == ~lock[s].w /\ lock[s].r = 0
CanRLock(s) == ~lock[s].w

\* A *stopT holding a user function. History fields: late, the callback run
\* of s had been entered when it was registered; pre, no trigger had yet been
\* invoked on s with a server recorded.
UserStop(s, n) ==
    [kind |-> "user", fn |-> n, ship |-> "", once |-> FALSE,
     late |-> once2[s] # "idle", pre |-> ~trigStarted[s]]

\* A *stopT holding the shutdown trigger of dispatcher t.
TriggerStop(s, t) ==
    [kind |-> "trigger", fn |-> 0, ship |-> t, once |-> FALSE,
     late |-> once2[s] # "idle", pre |-> ~trigStarted[s]]

\* RegisterOnShutdown's effect on the callback lists: append e to s.stopfs.
Registered(fs, s, e) == [fs EXCEPT ![s] = Append(@, e)]

\* RegisterOnShutdown(f) by the user, for a fresh function f, under s.lock.
RegisterOnShutdown(s) ==
    /\ nextFn <= MaxFns
    /\ CanLock(s)
    /\ stopfs' = Registered(stopfs, s, UserStop(s, nextFn))
    /\ nextFn' = nextFn + 1
    /\ UNCHANGED <<extVars, reqVars, links, server, once1, once2, done, lock, inShutdown,
                   spawned, procVars, histVars, waiting, returned, pubCalls,
                   lastShutdown>>

\* Whether other is already among s.links.
IsLinked(s, other) == \E i \in 1..Len(links[s]) : links[s][i] = other

\* s.Link(other): nothing when other is already linked, else both peer lists
\* grow by one.
Link(s, other) ==
    /\ links' = IF IsLinked(s, other)
                THEN links
                ELSE [links EXCEPT ![s] = Append(@, other),
                                   ![other] = Append(@, s)]
    /\ UNCHANGED <<extVars, reqVars, stopfs, server, once1, once2, done, lock, inShutdown,
                   spawned, procVars, histVars, envVars>>

\* s.Clone(): the Config of s with Signals set to the empty set, New of it,
\* and s.RegisterOnShutdown(newShip.shutdown), under s.lock.
Clone(s) ==
    /\ s \in Ships \ unborn
    /\ CanLock(s)
    /\ \E v \in unborn \cap Ships :
        /\ unborn' = unborn \ {v}
        /\ cloned' = [cloned EXCEPT ![v] = TRUE]
        /\ stopfs' = Registered(stopfs, s, TriggerStop(s, v))
    /\ UNCHANGED <<links, server, once1, once2, done, lock, inShutdown,
                   spawned, procVars, histVars, envVars, reqVars, maxNum,
                   errLog, vhosts, pipeline, served, restarts, exitVars, lnk,
                   made, resolved, vpanics>>

\* ---------------------------------------------------- Link, step by step
\* Link takes no lock, so the steps of concurrent calls interleave: the scan
\* of s.links, and the two appends, each a read of the slice and a write.
\* A goroutine calls s.Link(other).
LinkCall(p, s, other) ==
    /\ lnk[p].pc = "idle"
    /\ lnk' = [lnk EXCEPT ![p] = [pc |-> "scan", s |-> s, other |-> other,
                                  seen |-> <<>>]]
    /\ UNCHANGED <<lifeVars, reqVars, maxNum, errLog, hostVars, restarts,
                   exitVars, made, resolved, vpanics, cloned>>

\* Link's loop over s.links: other is found and Link returns, or it is not.
LinkScan(p) ==
    /\ lnk[p].pc = "scan"
    /\ lnk' = [lnk EXCEPT ![p].pc = IF IsLinked(lnk[p].s, lnk[p].other)
                                     THEN "done" ELSE "read_self"]
    /\ UNCHANGED <<lifeVars, reqVars, maxNum, errLog, hostVars, restarts,
                   exitVars, made, resolved, vpanics, cloned>>

\* append(s.links, other), and append(other.links, s): the slice is read.
LinkRead(p) ==
    /\ lnk[p].pc \in {"read_self", "read_other"}
    /\ lnk' = [lnk EXCEPT
                  ![p].seen = IF lnk[p].pc = "read_self" THEN links[lnk[p].s]
                              ELSE links[lnk[p].other],
                  ![p].pc = IF lnk[p].pc = "read_self" THEN "write_self"
                            ELSE "write_other"]
    /\ UNCHANGED <<lifeVars, reqVars, maxNum, errLog, hostVars, restarts,
                   exitVars, made, resolved, vpanics, cloned>>

\* s.links = append(...), and other.links = append(...): the slice read,
\* with one more element, is stored.
LinkWrite(p) ==
    /\ lnk[p].pc \in {"write_self", "write_other"}
    /\ links' = IF lnk[p].pc = "write_self"
                THEN [links EXCEPT ![lnk[p].s] = Append(lnk[p].seen, lnk[p].other)]
                ELSE [links EXCEPT ![lnk[p].other] = Append(lnk[p].seen, lnk[p].s)]
    /\ lnk' = [lnk EXCEPT ![p].pc = IF lnk[p].pc = "write_self"
                                     THEN "read_other" ELSE "done"]
    /\ UNCHANGED <<reqVars, maxNum, errLog, hostVars, restarts, exitVars, made,
                   resolved, vpanics, cloned, stopfs, server, once1, once2, done,
                   lock, inShutdown, spawned, procVars, histVars, envVars>>

\* ------------------------------------------------- Shutdown and the trigger
ServerRecordedAlways(t) == TRUE

\* Shutdown: server != nil, for the server read under the read lock.
ServerRecorded(t) == server[t] # 0

\* Ship.Shutdown: read s.server under the read lock; nil is an error and
\* nothing else, otherwise server.Shutdown, which marks the server as
\* shutting down and starts one goroutine per function registered with
\* server.RegisterOnShutdown, here s.stop.
Shutdown(t) ==
    /\ CanRLock(t)
    /\ inShutdown' = [inShutdown EXCEPT ![t] = @ \/ ServerRecorded(t)]
    /\ spawned' = [spawned EXCEPT ![t] = IF ServerRecorded(t) THEN @ + 1 ELSE @]

\* The public Shutdown, called by the user. History: what it returned, the
\* error "the server has not been started" or what server.Shutdown returns.
PublicShutdown(s) ==
    /\ pubCalls < MaxPublicShutdown
    /\ pubCalls' = pubCalls + 1
    /\ Shutdown(s)
    /\ lastShutdown' = [on |-> s, err |-> IF ServerRecorded(s) THEN "nil"
                                          ELSE "not started"]
    /\ UNCHANGED <<extVars, reqVars, links, stopfs, server, once1, once2, done, lock,
                   procVars, histVars, nextFn, waiting, returned>>

Once1Always(t) == TRUE

\* once1.Do runs its function: the gate has not been passed before.
Once1Fresh(t) == ~once1[t]

\* Ship.shutdown: s.once1.Do(func() { s.Shutdown(context.Background()) }).
\* Do holds the mutex of the Once while its function runs, so for the other
\* callers of the trigger the call is one step; the function's one read of
\* shared state is that of s.server in Shutdown.
Trigger(t) ==
    /\ trigStarted' = [trigStarted EXCEPT ![t] = @ \/ server[t] # 0]
    /\ trigStarting' = [trigStarting EXCEPT ![t] = @ \/ startpc[t] # "idle"]
    /\ IF Once1Fresh(t)
       THEN /\ Shutdown(t)
            /\ once1' = [once1 EXCEPT ![t] = TRUE]
            /\ trigShut' = [trigShut EXCEPT ![t] =
                               IF server[t] # 0 THEN @ + 1 ELSE @]
       ELSE UNCHANGED <<once1, inShutdown, spawned, trigShut>>

\* ------------------------------------------------------------ startServer
HasSignalsAlways(s) == TRUE

\* len(s.config.Signals) > 0: Config.init gives the default signals unless
\* the set was given; Clone gives the empty set.
HasSignals(s) == ~cloned[s]

IsVirtualHostNever(s) == FALSE

\* s.vhosts == nil: s was made by VHost.
IsVirtualHost(s) == vhosts[s].nil

\* startServer is entered. On a virtual host it logs an error and returns,
\* which leaves the deferred call of the trigger. Otherwise the signal
\* goroutine is started when Config.Signals is not empty (a goroutine of an
\* earlier Start that still waits goes on waiting beside it, and the
\* trigger they both call is gated by once1) and the range over s.links
\* begins.
StartEnter(s) ==
    IF IsVirtualHost(s)
    THEN /\ startpc' = [startpc EXCEPT ![s] = "deferred"]
         /\ UNCHANGED <<sigpc, linkIdx, linkLen>>
    ELSE /\ startpc' = [startpc EXCEPT ![s] = "links_self"]
         /\ sigpc' = IF HasSignals(s) THEN [sigpc EXCEPT ![s] = "wait"] ELSE sigpc
         /\ linkIdx' = [linkIdx EXCEPT ![s] = 1]
         /\ linkLen' = [linkLen EXCEPT ![s] = Len(links[s])]

\* The first Start or StartServer on s.
StartBegin(s) ==
    /\ startpc[s] = "idle"
    /\ StartEnter(s)
    /\ UNCHANGED <<extVars, reqVars, shipVars, stoppc, runIdx, runLen, histVars,
                   envVars>>

\* Start or StartServer on s again, after an earlier call has returned.
StartAgain(s) ==
    /\ startpc[s] = "done"
    /\ restarts[s] < MaxRestarts
    /\ restarts' = [restarts EXCEPT ![s] = @ + 1]
    /\ StartEnter(s)
    /\ UNCHANGED <<auxVars, maxNum, errLog, hostVars, exitVars, reqVars, shipVars, stoppc,
                   runIdx, runLen, histVars, envVars>>

\* The range over s.links, first half: s.RegisterOnShutdown(r.shutdown).
StartLinkSelf(s) ==
    /\ startpc[s] = "links_self"
    /\ linkIdx[s] <= linkLen[s]
    /\ CanLock(s)
    /\ stopfs' = Registered(stopfs, s, TriggerStop(s, links[s][linkIdx[s]]))
    /\ startpc' = [startpc EXCEPT ![s] = "links_peer"]
    /\ UNCHANGED <<extVars, reqVars, links, server, once1, once2, done, lock, inShutdown,
                   spawned, linkIdx, linkLen, sigpc, stoppc, runIdx, runLen,
                   histVars, envVars>>

\* The range over s.links, second half: r.RegisterOnShutdown(s.shutdown).
StartLinkPeer(s) ==
    /\ startpc[s] = "links_peer"
    /\ LET r == links[s][linkIdx[s]] IN
        /\ CanLock(r)
        /\ stopfs' = Registered(stopfs, r, TriggerStop(r, s))
    /\ linkIdx' = [linkIdx EXCEPT ![s] = @ + 1]
    /\ startpc' = [startpc EXCEPT ![s] = "links_self"]
    /\ UNCHANGED <<extVars, reqVars, links, server, once1, once2, done, lock, inShutdown,
                   spawned, linkLen, sigpc, stoppc, runIdx, runLen,
                   histVars, envVars>>

\* After the range: server.RegisterOnShutdown(s.stop), then under s.lock the
\* server is recorded, or, when one is recorded already, startServer returns
\* with the lock still held. With the server recorded comes ListenAndServe:
\* the listener binds (ok) and serves, or fails to and returns. The servers
\* are numbered by the Start call they were made for.
StartRecord(s) ==
    /\ startpc[s] = "links_self"
    /\ linkIdx[s] > linkLen[s]
    /\ CanLock(s)
    /\ IF server[s] # 0
       THEN /\ lock' = [lock EXCEPT ![s].w = TRUE]
            /\ startpc' = [startpc EXCEPT ![s] = "deferred"]
            /\ UNCHANGED server
       ELSE /\ server' = [server EXCEPT ![s] = restarts[s] + 1]
            /\ \E ok \in BOOLEAN :
                startpc' = [startpc EXCEPT ![s] =
                               IF ok THEN "serving" ELSE "deferred"]
            /\ UNCHANGED lock
    /\ UNCHANGED <<extVars, reqVars, links, stopfs, once1, once2, done, inShutdown, spawned,
                   linkIdx, linkLen, sigpc, stoppc, runIdx, runLen,
                   histVars, envVars>>

\* ListenAndServe returns http.ErrServerClosed once server.Shutdown has been
\* called.
StartServed(s) ==
    /\ startpc[s] = "serving"
    /\ inShutdown[s]
    /\ startpc' = [startpc EXCEPT ![s] = "deferred"]
    /\ UNCHANGED <<extVars, reqVars, shipVars, linkIdx, linkLen, sigpc, stoppc, runIdx, runLen,
                   histVars, envVars>>

\* defer s.shutdown().
StartDeferred(s) ==
    /\ startpc[s] = "deferred"
    /\ Trigger(s)
    /\ startpc' = [startpc EXCEPT ![s] = "done"]
    /\ UNCHANGED <<extVars, reqVars, links, stopfs, server, once2, done, lock,
                   linkIdx, linkLen, sigpc, stoppc, runIdx, runLen,
                   ranLog, envVars>>

\* ---------------------------------------------------------- handleSignals
\* A signal of Config.Signals arrives: <-ss returns, then s.shutdown().
SignalShutdown(s) ==
    /\ sigpc[s] = "wait"
    /\ Trigger(s)
    /\ sigpc' = [sigpc EXCEPT ![s] = "done"]
    /\ UNCHANGED <<extVars, reqVars, links, stopfs, server, once2, done, lock,
                   startpc, linkIdx, linkLen, stoppc, runIdx, runLen,
                   ranLog, envVars>>

\* ------------------------------------------------------- stop and runStop
\* Ship.stop in a goroutine that server.Shutdown started: once2.Do returns
\* at once when runStop has been run, waits while another goroutine is in
\* runStop, and otherwise enters runStop: s.lock.RLock(), and the range over
\* s.stopfs begins.
StopBegin(s, k) ==
    /\ stoppc[s][k] = "none"
    /\ k <= spawned[s]
    /\ once2[s] # "running"
    /\ once2[s] = "idle" => CanRLock(s)
    /\ IF once2[s] = "done"
       THEN /\ stoppc' = [stoppc EXCEPT ![s][k] = "exit"]
            /\ UNCHANGED <<once2, lock, runIdx, runLen>>
       ELSE /\ once2' = [once2 EXCEPT ![s] = "running"]
            /\ lock' = [lock EXCEPT ![s].r = @ + 1]
            /\ runIdx' = [runIdx EXCEPT ![s] = 1]
            /\ runLen' = [runLen EXCEPT ![s] = Len(stopfs[s])]
            /\ stoppc' = [stoppc EXCEPT ![s][k] = "loop"]
    /\ UNCHANGED <<extVars, reqVars, links, stopfs, server, once1, done, inShutdown, spawned,
                   startpc, linkIdx, linkLen, sigpc, histVars, envVars>>

RunOrderReversed(i, n) == n + 1 - i

\* The order in which runStop visits the slice it ranges over: the i-th
\* callback visited, of n, is the one at this index.
RunOrder(i, n) == i

\* The callback runStop is at.
RunAt(s) == RunOrder(runIdx[s], runLen[s])

\* runStop: r.run() on the next callback. stopT.once lets its function run
\* once; a user function runs and returns, a peer's trigger is entered.
StopRun(s, k) ==
    /\ stoppc[s][k] = "loop"
    /\ runIdx[s] <= runLen[s]
    /\ LET e == stopfs[s][RunAt(s)] IN
        IF e.once
        THEN /\ runIdx' = [runIdx EXCEPT ![s] = @ + 1]
             /\ UNCHANGED <<stopfs, ranLog, stoppc>>
        ELSE /\ stopfs' = [stopfs EXCEPT ![s][RunAt(s)].once = TRUE]
             /\ ranLog' = [ranLog EXCEPT ![s] = Append(@, RunAt(s))]
             /\ IF e.kind = "user"
                THEN /\ runIdx' = [runIdx EXCEPT ![s] = @ + 1]
                     /\ UNCHANGED stoppc
                ELSE /\ stoppc' = [stoppc EXCEPT ![s][k] = "cb"]
                     /\ UNCHANGED runIdx
    /\ UNCHANGED <<extVars, reqVars, links, server, once1, once2, done, lock, inShutdown,
                   spawned, startpc, linkIdx, linkLen, sigpc, runLen,
                   trigShut, trigStarted, trigStarting, envVars>>

\* runStop, in a callback that is a peer's trigger: r.shutdown().
StopCb(s, k) ==
    /\ stoppc[s][k] = "cb"
    /\ Trigger(stopfs[s][RunAt(s)].ship)
    /\ stoppc' = [stoppc EXCEPT ![s][k] = "loop"]
    /\ runIdx' = [runIdx EXCEPT ![s] = @ + 1]
    /\ UNCHANGED <<extVars, reqVars, links, stopfs, server, once2, done, lock,
                   startpc, linkIdx, linkLen, sigpc, runLen, ranLog, envVars>>

RunFinishedEarly(s) == TRUE

\* runStop has visited every callback of the slice it ranges over.
RunFinished(s) == runIdx[s] > runLen[s]

\* runStop returns: the deferred close(s.done), the deferred RUnlock, and
\* once2 is done.
StopClose(s, k) ==
    /\ stoppc[s][k] = "loop"
    /\ RunFinished(s)
    /\ done' = [done EXCEPT ![s] = @ + 1]
    /\ lock' = [lock EXCEPT ![s].r = @ - 1]
    /\ once2' = [once2 EXCEPT ![s] = "done"]
    /\ stoppc' = [stoppc EXCEPT ![s][k] = "exit"]
    /\ UNCHANGED <<extVars, reqVars, links, stopfs, server, once1, inShutdown, spawned,
                   startpc, linkIdx, linkLen, sigpc, runIdx, runLen,
                   histVars, envVars>>

\* -------------------------------------------------------------------- Wait
\* A caller enters Wait and blocks in <-s.done.
WaitCall(s) ==
    /\ waiting["X"] + waiting["Y"] + returned["X"] + returned["Y"] < MaxWaiters
    /\ waiting' = [waiting EXCEPT ![s] = @ + 1]
    /\ UNCHANGED <<extVars, reqVars, shipVars, procVars, histVars, nextFn, returned,
                   pubCalls, lastShutdown>>

\* <-s.done returns: nothing is ever sent on the channel, so only when it is
\* closed.
WaitReturn(s) ==
    /\ waiting[s] > 0
    /\ done[s] > 0
    /\ waiting' = [waiting EXCEPT ![s] = @ - 1]
    /\ returned' = [returned EXCEPT ![s] = @ + 1]
    /\ UNCHANGED <<extVars, reqVars, shipVars, procVars, histVars, nextFn, pubCalls,
                   lastShutdown>>

\* ------------------------------------------------------ the request pipeline
Reqs == 1..MaxReqs

\* The nil error.
Nil == "nil"

\* NewContext: newContext(s, r, w, s.maxNum) makes a context whose parameter
\* storage is sized for n parameters.
NewContext(n) == [err |-> Nil, req |-> 0, data |-> 0, cap |-> n]

\* contextT.reset: the parameters, the store and the error are cleared and
\* the request and response unbound; the storage keeps its capacity.
Reset(c) == [c EXCEPT !.err = Nil, !.req = 0, !.data = 0]

\* contextT.setReqResp: the context is bound to the request and its writer.
SetReqResp(c, r) == [c EXCEPT !.req = r]

\* New: the root handler is handleRequestRoute, and the pool is empty.
ReqInit ==
    /\ premiddlewares = <<>>
    /\ handler = <<"route">>
    /\ preCalls = 0
    /\ pool = {}
    /\ nextCtx = 1
    /\ ctxs = [c \in Reqs |-> NewContext(0)]
    /\ reqs = [r \in Reqs |-> [pc |-> "new", ctx |-> 0, need |-> 0, ret |-> Nil,
                               slot |-> Nil, errCalls |-> 0, errArg |-> Nil,
                               released |-> 0, recovered |-> 0]]

\* A middleware applied to a handler: the handler it returns runs the
\* middleware's code around h.
Wrap(m, h) == <<m>> \o h

PreBaseCurrent(h) == h

\* The handler Pre's loop starts from: handleRequestRoute, whatever the
\* root handler h was.
PreBase(h) == <<"route">>

\* Pre's loop, for i from len(premiddlewares)-1 down to 0:
\* handler = premiddlewares[i](handler).
RECURSIVE PreLoop(_, _, _)
PreLoop(pm, i, h) == IF i < 1 THEN h ELSE PreLoop(pm, i - 1, Wrap(pm[i], h))

\* The sequences over S of length n.
RECURSIVE SeqsOf(_, _)
SeqsOf(S, n) ==
    IF n = 0 THEN {<<>>}
    ELSE {Append(q, x) : q \in SeqsOf(S, n - 1), x \in S}

\* Pre(middlewares...): the middlewares are appended and the root handler is
\* built again from handleRequestRoute.
Pre(ms) ==
    /\ preCalls < MaxPre
    /\ Len(premiddlewares) + Len(ms) <= MaxPre
    /\ premiddlewares' = premiddlewares \o ms
    /\ handler' = PreLoop(premiddlewares', Len(premiddlewares'), PreBase(handler))
    /\ preCalls' = preCalls + 1
    /\ UNCHANGED <<extVars, lifeVars, pool, nextCtx, ctxs, reqs>>

\* What the code of a pre-middleware does with a request: call next and
\* return what it returns, return an error of its own without calling next,
\* call next and return nil, or panic.
MwActs == {"pass", "fail", "mask", "panic"}

\* What the handler handleRequestRoute ends in does: return nil, return an
\* error, set the context's error slot and return nil, do both, panic, or
\* set the error slot and panic.
RouteActs == {"ok", "err", "seterr", "both", "panic", "seterr_panic"}

\* The layer that NewPanicMiddleware() makes.
PanicMw == "recover"

\* What a panic can carry: it tells the layer that panicked, the last one
\* entered.
PanicValues == {"route"} \cup {"in_" \o m : m \in Mws}

\* The calls of the panic handler in a trace.
PanicCalls(trace) ==
    Cardinality({i \in 1..Len(trace) :
                    trace[i] \in {"handlePanic:" \o v : v \in PanicValues}})

RecoverNothing(next) ==
    IF next.panic
    THEN [next EXCEPT !.trace = <<"in_" \o PanicMw>> \o @]
    ELSE [next EXCEPT !.trace = <<"in_" \o PanicMw>> \o @ \o <<"out_" \o PanicMw>>]

\* The handler of NewPanicMiddleware around the outcome of next.Handle(ctx):
\* err = next.Handle(ctx) and return; when next panicked, the deferred
\* function recovers, calls handlePanic(ctx, value), and the named result
\* err, never assigned, is returned as nil.
Recover(next) ==
    IF next.panic
    THEN [next EXCEPT !.trace = <<"in_" \o PanicMw>> \o @ \o
                                 <<"handlePanic:" \o @[Len(@)],
                                   "out_" \o PanicMw>>,
                      !.ret = Nil,
                      !.panic = FALSE]
    ELSE [next EXCEPT !.trace = <<"in_" \o PanicMw>> \o @ \o <<"out_" \o PanicMw>>]

\* The behaviours of the layers for one request.
Behaviours ==
    {[x \in Mws \cup {"route"} |-> IF x = "route" THEN ra ELSE mb[x]] :
        ra \in RouteActs, mb \in [Mws -> MwActs]}

\* The call h(ctx) under behaviour b: the layers entered and left (trace),
\* the error returned (ret), the error left in the context (slot), and
\* whether the call ended in a panic instead of returning.
RECURSIVE Handle(_, _)
Handle(h, b) ==
    LET m == Head(h) IN
    IF m = "route"
    THEN [trace |-> <<"route">>,
          ret |-> IF b[m] \in {"err", "both"} THEN "E_route" ELSE Nil,
          slot |-> IF b[m] \in {"seterr", "both", "seterr_panic"}
                   THEN "S_route" ELSE Nil,
          panic |-> b[m] \in {"panic", "seterr_panic"}]
    ELSE IF m = PanicMw
    THEN Recover(Handle(Tail(h), b))
    ELSE IF b[m] = "fail"
    THEN [trace |-> <<"in_" \o m, "out_" \o m>>, ret |-> "E_" \o m,
          slot |-> Nil, panic |-> FALSE]
    ELSE IF b[m] = "panic"
    THEN [trace |-> <<"in_" \o m>>, ret |-> Nil, slot |-> Nil, panic |-> TRUE]
    ELSE LET next == Handle(Tail(h), b) IN
         IF next.panic
         THEN [next EXCEPT !.trace = <<"in_" \o m>> \o @]
         ELSE [next EXCEPT !.trace = <<"in_" \o m>> \o @ \o <<"out_" \o m>>,
                           !.ret = IF b[m] = "mask" THEN Nil ELSE @]

PoolGetKeeps(p, c) == p

\* ctxpool.Get(): the context handed out is no longer in the pool.
PoolGet(p, c) == p \ {c}

\* setURLParamNum(num), which the registration of a route with num
\* parameters calls.
AddRoute(num) ==
    /\ maxNum' = IF num > maxNum THEN num ELSE maxNum
    /\ UNCHANGED <<auxVars, lifeVars, reqVars, errLog, hostVars, restarts, exitVars>>

\* AcquireContext: ctxpool.Get() hands out a free context, or New makes one
\* with NewContext; setReqResp binds it to the request. Requests are numbered
\* in the order in which they arrive. History: need, the value of maxNum at
\* the time.
AcquireContext(r) ==
    /\ reqs[r].pc = "new"
    /\ r > 1 => reqs[r - 1].pc # "new"
    /\ \E c \in pool \cup (IF nextCtx <= MaxReqs THEN {nextCtx} ELSE {}) :
        /\ pool' = PoolGet(pool, c)
        /\ nextCtx' = IF c = nextCtx THEN nextCtx + 1 ELSE nextCtx
        /\ ctxs' = [ctxs EXCEPT ![c] =
                        SetReqResp(IF c \in pool THEN @ ELSE NewContext(maxNum), r)]
        /\ reqs' = [reqs EXCEPT ![r].pc = "handle", ![r].ctx = c,
                                ![r].need = maxNum]
    /\ UNCHANGED <<extVars, lifeVars, premiddlewares, handler, preCalls>>

\* handleRequest: err := s.handler(ctx), which leaves the request's
\* parameters and store entries in the context. A panic leaves handleRequest.
\* History: the calls of the panic handler made for the request.
RunHandler(r) ==
    /\ reqs[r].pc = "handle"
    /\ \E b \in Behaviours :
        LET res == Handle(handler, b) IN
            /\ ctxs' = [ctxs EXCEPT ![reqs[r].ctx].err = res.slot,
                                    ![reqs[r].ctx].data = r]
            /\ reqs' = [reqs EXCEPT ![r].pc = IF res.panic THEN "panicked"
                                               ELSE "check",
                                    ![r].ret = res.ret,
                                    ![r].slot = res.slot,
                                    ![r].recovered = PanicCalls(res.trace)]
    /\ UNCHANGED <<extVars, lifeVars, premiddlewares, handler, preCalls, pool, nextCtx>>

FinalErrSlotFirst(ret, slot) == IF slot = Nil THEN ret ELSE slot

\* handleRequest: the error that decides: the returned one, or else ctx.err.
FinalErr(ret, slot) == IF ret = Nil THEN slot ELSE ret

\* handleRequest: if the error is not nil, s.config.HandleError(ctx, err),
\* which returns or panics.
CheckError(r) ==
    /\ reqs[r].pc = "check"
    /\ LET err == FinalErr(reqs[r].ret, ctxs[reqs[r].ctx].err) IN
        IF err = Nil
        THEN reqs' = [reqs EXCEPT ![r].pc = "release"]
        ELSE \E panics \in BOOLEAN :
                reqs' = [reqs EXCEPT ![r].pc = IF panics THEN "panicked"
                                                ELSE "release",
                                     ![r].errCalls = @ + 1,
                                     ![r].errArg = err]
    /\ UNCHANGED <<extVars, lifeVars, premiddlewares, handler, preCalls, pool, nextCtx,
                   ctxs>>

\* handleRequest: s.ReleaseContext(ctx) resets the context and puts it back.
ReleaseContext(r) ==
    /\ reqs[r].pc = "release"
    /\ ctxs' = [ctxs EXCEPT ![reqs[r].ctx] = Reset(@)]
    /\ pool' = pool \cup {reqs[r].ctx}
    /\ reqs' = [reqs EXCEPT ![r].pc = "done", ![r].released = @ + 1]
    /\ UNCHANGED <<extVars, lifeVars, premiddlewares, handler, preCalls, nextCtx>>

\* ------------------------------------------------- the http.Handler bridge
\* What the Handler of a bridge is and does: nil, or it returns nil or an
\* error.
BridgeHandlers == {"nil", "ok", "error"}

\* httpHandlerBridge.ServeHTTP: the context is acquired from the pool of the
\* dispatcher, then the not-found handler runs when Handler is nil, Handler
\* otherwise; what it returns is dropped, and ServeHTTP returns.
BridgeServeHTTP(r, h) ==
    /\ reqs[r].pc = "new"
    /\ r > 1 => reqs[r - 1].pc # "new"
    /\ \E c \in pool \cup (IF nextCtx <= MaxReqs THEN {nextCtx} ELSE {}) :
        /\ pool' = PoolGet(pool, c)
        /\ nextCtx' = IF c = nextCtx THEN nextCtx + 1 ELSE nextCtx
        /\ ctxs' = [ctxs EXCEPT ![c] =
                        [SetReqResp(IF c \in pool THEN @ ELSE NewContext(maxNum), r)
                            EXCEPT !.data = r]]
        /\ reqs' = [reqs EXCEPT ![r].pc = "bridged", ![r].ctx = c,
                                ![r].need = maxNum,
                                ![r].ret = IF h = "ok" THEN Nil ELSE h]
    /\ UNCHANGED <<extVars, lifeVars, premiddlewares, handler, preCalls>>

\* ------------------------------------------------- the default error handler
\* http.StatusInternalServerError.
StatusInternalServerError == 500

\* The status codes of the structured errors there are: a redirect, the ends
\* of the client class and one code within it, and two of the server class.
Codes == {302, 400, 404, 499, 500, 503}

\* What the messages of an error can be.
Texts == {"m1", "m2"}

\* An HTTPError: Code(), Message() and Error(); the last two are methods of
\* their own and need not agree (an error that wraps a cause).
HTTPErrors == [class : {"http"}, code : Codes, msg : Texts, text : Texts]

\* An error that is not an HTTPError and not ErrSkip, with its Error().
PlainErrors == [class : {"plain"}, code : {0}, msg : {""}, text : Texts]

\* The sentinel ErrSkip.
ErrSkip == [class |-> "skip", code |-> 0, msg |-> "", text |-> "skip"]

Errors == HTTPErrors \cup PlainErrors \cup {ErrSkip}

RevealsErrorAnyMode(code, debug) == (400 <= code /\ code < 500) \/ code >= 500

\* handleError replaces he.Message() by err.Error(): for a code of the
\* client class, and for one of the server class in debug mode.
RevealsError(code, debug) ==
    (400 <= code /\ code < 500) \/ (code >= 500 /\ debug)

ErrorStatusAlways500(err) == StatusInternalServerError

\* The status handleError responds with: the code of an HTTPError, and 500
\* for another error.
ErrorStatus(err) ==
    IF err.class = "http" THEN err.code ELSE StatusInternalServerError

IsSkipNever(err) == FALSE

\* err == ErrSkip.
IsSkip(err) == err = ErrSkip

\* handleError(ctx, err) on a context whose IsDebug() is debug: the responses
\* written (ctx.Blob, ctx.NoContent) and the log entries made. ctx.Logger()
\* is the Config's, which Config.init never leaves nil.
handleError(err, debug) ==
    IF err.class = "http"
    THEN [writes |-> <<[status |-> ErrorStatus(err),
                        body |-> IF RevealsError(err.code, debug)
                                 THEN err.text ELSE err.msg]>>,
          logs |-> IF err.code >= 500 THEN <<err.text>> ELSE <<>>]
    ELSE IF ~IsSkip(err)
    THEN [writes |-> <<[status |-> ErrorStatus(err), body |-> ""]>>,
          logs |-> <<err.text>>]
    ELSE [writes |-> <<>>, logs |-> <<>>]

\* config.HandleError(ctx, err) with the default handler.
HandleError ==
    /\ Len(errLog) < MaxErrCalls
    /\ \E err \in Errors : \E debug \in BOOLEAN :
        errLog' = Append(errLog, [err |-> err, debug |-> debug,
                                  out |-> handleError(err, debug)])
    /\ UNCHANGED <<auxVars, lifeVars, reqVars, maxNum, hostVars, restarts, exitVars>>

\* ------------------------------------------------------------ virtual hosts
\* The hosts a virtual host can be registered under.
Hosts == {"a.io", "b.io"}

\* The hosts a request can name.
ReqHosts == Hosts \cup {"c.io"}

\* The paths there are to register routes for.
Paths == {"/"}

\* No dispatcher.
NoShip == "none"

\* The dispatchers New has made.
Born == Ships \ unborn

\* The middleware m, or the path m, as given to dispatcher s.
Tag(s, m) == s \o ":" \o m

\* The dispatchers VHost can be called on or can make: those of Ships, and
\* one more that is only ever a virtual host.
Dispatchers == Ships \cup {"Z"}

VHostPanicsOnVirtualHostOnly(s, host) == vhosts[s].nil

\* VHost's two checks: s.vhosts == nil, and s.vhosts[host] != nil.
VHostPanics(s, host) == vhosts[s].nil \/ vhosts[s].m[host] # NoShip

\* s.VHost(host) panics on a virtual host, and when the host has been added.
\* Otherwise New(s.config) makes a dispatcher, whose vhosts is set to nil,
\* and s.vhosts maps the host to it.
VHost(s, host) ==
    /\ s \in Dispatchers \ unborn
    /\ IF VHostPanics(s, host)
       THEN /\ vpanics < MaxVPanics
            /\ vpanics' = vpanics + 1
            /\ UNCHANGED <<vhosts, unborn>>
       ELSE /\ \E v \in unborn :
                /\ unborn' = unborn \ {v}
                /\ vhosts' = [vhosts EXCEPT ![s].m[host] = v, ![v].nil = TRUE]
            /\ UNCHANGED vpanics
    /\ UNCHANGED <<lnk, made, resolved, cloned, lifeVars, reqVars, maxNum,
                   errLog, pipeline, served, restarts, exitVars>>

\* s.Pre(m): as Pre, on the pipeline of s.
PreOf(s, m) ==
    /\ s \in Born
    /\ Len(pipeline[s].premiddlewares) < MaxPre
    /\ LET pm == Append(pipeline[s].premiddlewares, Tag(s, m)) IN
        pipeline' = [pipeline EXCEPT
                        ![s].premiddlewares = pm,
                        ![s].handler = PreLoop(pm, Len(pm), PreBase(@))]
    /\ UNCHANGED <<auxVars, lifeVars, reqVars, maxNum, errLog, vhosts, unborn, served,
                   restarts, exitVars>>

\* s.Use(m), for a middleware not yet among the global middlewares of s.
UseOf(s, m) ==
    /\ s \in Born
    /\ \A i \in 1..Len(pipeline[s].middlewares) :
           pipeline[s].middlewares[i] # Tag(s, m)
    /\ pipeline' = [pipeline EXCEPT ![s].middlewares = Append(@, Tag(s, m))]
    /\ UNCHANGED <<auxVars, lifeVars, reqVars, maxNum, errLog, vhosts, unborn, served,
                   restarts, exitVars>>

\* s.Route(path) and the registration of a handler for it: newRoute is given
\* s.router, into which the route goes.
RouteOf(s, path) ==
    /\ s \in Born
    /\ pipeline' = [pipeline EXCEPT ![s].routes = @ \cup {Tag(s, path)}]
    /\ UNCHANGED <<auxVars, lifeVars, reqVars, maxNum, errLog, vhosts, unborn, served,
                   restarts, exitVars>>

\* d.handleRequest(router, w, r), with the router of dispatcher rt: the
\* context comes from the pool of d, the handler run is that of d, the route
\* is looked up in the router given, and the not-found handler is that of
\* the Config of d.
handleRequest(d, rt) ==
    [by |-> d, pool |-> d, layers |-> pipeline[d].handler, router |-> rt,
     routes |-> pipeline[rt].routes, notfound |-> d]

VHostReceiverParent(s, v) == s

\* ServeHTTP, for a request that names a virtual host v of s: the dispatcher
\* whose handleRequest is called.
VHostReceiver(s, v) == v

\* s.ServeHTTP(w, r) with r.Host = host. History: the virtual host the host
\* was registered for at the time, and the pre-middlewares of all
\* dispatchers at the time.
ServeHTTP(s, host) ==
    /\ s \in Born
    /\ Len(served) < MaxServed
    /\ LET v == IF host \in Hosts THEN vhosts[s].m[host] ELSE NoShip
           call == IF ~vhosts[s].nil /\ v # NoShip
                   THEN handleRequest(VHostReceiver(s, v), v)
                   ELSE handleRequest(s, s)
       IN served' = Append(served,
              [on |-> s, host |-> host, vhost |-> v, call |-> call,
               pre |-> [x \in Ships |-> pipeline[x].premiddlewares]])
    /\ UNCHANGED <<auxVars, lifeVars, reqVars, maxNum, errLog, vhosts, unborn, pipeline,
                   restarts, exitVars>>

\* ------------------------------------------------------ routes and groups
\* The middlewares a group can be given as its own.
OwnMws == {<<>>, <<"own">>}

\* newRoute(s, s.router, prefix, path, ms...) and newGroup(..., ms...): the
\* route or group holds the middlewares it is given. shared: ms is the
\* slice s.middlewares itself, not a copy, so the route reads the backing
\* array that Use appends to.
newRoute(s, ms, shared) == [kind |-> "route", on |-> s, mws |-> ms, shared |-> shared]
newGroup(s, ms) == [kind |-> "group", on |-> s, mws |-> ms, shared |-> FALSE]

GroupMiddlewaresOwnFirst(ms, own) == own \o ms

\* Group: ms is made with room for both, then append(ms, s.middlewares...)
\* and append(ms, middlewares...).
GroupMiddlewares(ms, own) == ms \o own

\* A route or group is made. History: the global middlewares at the time,
\* the group's own, and whether the global ones are inherited.
Make(e, s, own, inherits) ==
    /\ s \in Born
    /\ Len(made) < MaxMade
    /\ made' = Append(made, [e |-> e, before |-> pipeline[s].middlewares,
                             own |-> own, inherits |-> inherits])
    /\ UNCHANGED <<lifeVars, reqVars, maxNum, errLog, hostVars, restarts,
                   exitVars, lnk, resolved, vpanics, cloned>>

\* s.Route(path): newRoute with s.middlewares... as the middlewares.
Route(s) == Make(newRoute(s, pipeline[s].middlewares, TRUE), s, <<>>, TRUE)

\* s.RouteWithoutMiddleware(path): newRoute with no middlewares.
RouteWithoutMiddleware(s) == Make(newRoute(s, <<>>, FALSE), s, <<>>, FALSE)

\* s.Group(prefix, middlewares...).
Group(s, own) ==
    Make(newGroup(s, GroupMiddlewares(pipeline[s].middlewares, own)), s, own, TRUE)

\* s.GroupWithoutMiddleware(prefix, middlewares...): a copy of the
\* middlewares given.
GroupWithoutMiddleware(s, own) == Make(newGroup(s, own), s, own, FALSE)

\* The middlewares a route or group made has now: those it holds, read
\* through the backing array of s.middlewares when the slice is shared.
Middlewares(e) ==
    IF e.shared
    THEN SubSeq(pipeline[e.on].middlewares, 1, Len(e.mws))
    ELSE e.mws

\* ------------------------------------------------------ route resolution
\* The request methods, and the method the routes of RouteOf are for.
Methods == {"GET", "POST"}
RouteMethod == "GET"

\* The request paths: those routes are registered for, and one more.
ReqPaths == Paths \cup {"/none"}

\* No handler: the nil that Find returns.
NoHandler == "nil_handler"

\* Router.Find(method, path, pnames, pvalues) on the router of rt holding
\* routes: the handler registered for the method and the path, or nil.
Find(routes, rt, method, path) ==
    IF method = RouteMethod /\ path \in Paths /\ Tag(rt, path) \in routes
    THEN Tag(rt, path)
    ELSE NoHandler

FoundAlways(h) == TRUE

\* handleRequestRoute: h != nil.
Found(h) == h # NoHandler

\* s.handleRequestRoute(ctx), for the request req of ctx, the router of ctx
\* holding routes, the handler found returning hret and the not-found
\* handler of the Config returning nfret: the calls of Find made with their
\* arguments, the handlers run, and the error returned.
handleRequestRoute(s, req, routes, hret, nfret) ==
    LET h == Find(routes, s, req.method, req.path) IN
    [finds |-> <<[method |-> req.method, path |-> req.path]>>,
     ran |-> <<IF Found(h) THEN h ELSE "notfound">>,
     ret |-> IF Found(h) THEN hret ELSE nfret]

\* A request reaches route resolution on s. History: the request, the
\* routes at the time, what the handlers return, and the outcome.
ResolveRoute(s, method, path) ==
    /\ s \in Born
    /\ Len(resolved) < MaxResolved
    /\ \E hret \in {Nil, "E_route"} : \E nfret \in {Nil, "E_notfound"} :
        LET req == [method |-> method, path |-> path] IN
        resolved' = Append(resolved,
            [on |-> s, req |-> req, routes |-> pipeline[s].routes,
             hret |-> hret, nfret |-> nfret,
             res |-> handleRequestRoute(s, req, pipeline[s].routes, hret, nfret)])
    /\ UNCHANGED <<lifeVars, reqVars, maxNum, errLog, hostVars, restarts,
                   exitVars, lnk, made, vpanics, cloned>>

\* ------------------------------------------------------- the exit functions
\* The goroutines that call CallOnExit or Exit.
Callers == {"p", "q"}

\* OnExit(f), for a new function (fn is its number) or for nil (fn = 0),
\* while no goroutine is in CallOnExit's loop: funcs is not synchronised.
\* History: early, no call of CallOnExit or Exit had begun.
OnExit(isNil) ==
    /\ ~osExited
    /\ Len(funcs) < MaxExitFns
    /\ \A p \in Callers : expc[p].pc # "loop"
    /\ funcs' = Append(funcs, [fn |-> IF isNil THEN 0 ELSE Len(funcs) + 1,
                               early |-> exCalls = 0])
    /\ UNCHANGED <<auxVars, lifeVars, reqVars, maxNum, errLog, hostVars, restarts,
                   exited, expc, exIdx, exRan, exCalls, osExited>>

\* A goroutine calls CallOnExit, or Exit, which calls CallOnExit first.
CallBegin(p, inExit) ==
    /\ ~osExited
    /\ expc[p].pc = "idle"
    /\ exCalls < MaxCalls
    /\ exCalls' = exCalls + 1
    /\ expc' = [expc EXCEPT ![p] = [pc |-> "cas", exit |-> inExit]]
    /\ UNCHANGED <<auxVars, lifeVars, reqVars, maxNum, errLog, hostVars, restarts,
                   funcs, exited, exIdx, exRan, osExited>>

CompareAlwaysEqual(old) == TRUE

\* atomic.CompareAndSwapInt32(&exited, old, new) swaps when exited is old.
CompareEqual(old) == exited = old

\* CallOnExit: the compare-and-swap of exited from 0 to 1; the goroutine that
\* swaps enters the loop at _len = len(funcs) - 1, another returns.
CallSwap(p) ==
    /\ ~osExited
    /\ expc[p].pc = "cas"
    /\ IF CompareEqual(0)
       THEN /\ exited' = 1
            /\ expc' = [expc EXCEPT ![p].pc = "loop"]
            /\ exIdx' = [exIdx EXCEPT ![p] = Len(funcs)]
       ELSE /\ expc' = [expc EXCEPT ![p].pc = "ret"]
            /\ UNCHANGED <<exited, exIdx>>
    /\ UNCHANGED <<auxVars, lifeVars, reqVars, maxNum, errLog, hostVars, restarts,
                   funcs, exRan, exCalls, osExited>>

\* CallOnExit's loop: f := funcs[_len] is called when it is not nil, and
\* _len goes down by one.
CallStep(p) ==
    /\ ~osExited
    /\ expc[p].pc = "loop"
    /\ exIdx[p] >= 1
    /\ exRan' = IF funcs[exIdx[p]].fn # 0 THEN Append(exRan, exIdx[p]) ELSE exRan
    /\ exIdx' = [exIdx EXCEPT ![p] = @ - 1]
    /\ UNCHANGED <<auxVars, lifeVars, reqVars, maxNum, errLog, hostVars, restarts,
                   funcs, exited, expc, exCalls, osExited>>

\* CallOnExit's loop ends: _len < 0.
CallLoopEnd(p) ==
    /\ ~osExited
    /\ expc[p].pc = "loop"
    /\ exIdx[p] < 1
    /\ expc' = [expc EXCEPT ![p].pc = "ret"]
    /\ UNCHANGED <<auxVars, lifeVars, reqVars, maxNum, errLog, hostVars, restarts,
                   funcs, exited, exIdx, exRan, exCalls, osExited>>

\* CallOnExit returns to its caller.
CallReturn(p) ==
    /\ ~osExited
    /\ expc[p].pc = "ret"
    /\ ~expc[p].exit
    /\ expc' = [expc EXCEPT ![p].pc = "idle"]
    /\ UNCHANGED <<auxVars, lifeVars, reqVars, maxNum, errLog, hostVars, restarts,
                   funcs, exited, exIdx, exRan, exCalls, osExited>>

\* Exit: CallOnExit has returned, and os.Exit(code) ends the process.
OsExit(p) ==
    /\ ~osExited
    /\ expc[p].pc = "ret"
    /\ expc[p].exit
    /\ osExited' = TRUE
    /\ expc' = [expc EXCEPT ![p].pc = "gone"]
    /\ UNCHANGED <<auxVars, lifeVars, reqVars, maxNum, errLog, hostVars, restarts,
                   funcs, exited, exIdx, exRan, exCalls>>

\* ------------------------------------------------------------ specification
\* What the goroutines of the program do, once started.
ProgNext ==
    \/ \E s \in Ships : StartLinkSelf(s)
    \/ \E s \in Ships : StartLinkPeer(s)
    \/ \E s \in Ships : StartRecord(s)
    \/ \E s \in Ships : StartServed(s)
    \/ \E s \in Ships : StartDeferred(s)
    \/ \E s \in Ships : \E k \in StopIds : StopBegin(s, k)
    \/ \E s \in Ships : \E k \in StopIds : StopRun(s, k)
    \/ \E s \in Ships : \E k \in StopIds : StopCb(s, k)
    \/ \E s \in Ships : \E k \in StopIds : StopClose(s, k)
    \/ \E s \in Ships : WaitReturn(s)

\* No goroutine of the program can take a step: each has returned or is
\* blocked.
Quiescent == ~ENABLED ProgNext

\* The goroutines that call Link.
Linkers == {"g", "h"}

\* New for the dispatchers, and package utils at program start.
ExtInit ==
    /\ maxNum = 0
    /\ errLog = <<>>
    /\ vhosts = [s \in Dispatchers |->
                    [nil |-> FALSE, m |-> [h \in Hosts |-> NoShip]]]
    /\ pipeline = [s \in Ships |-> [premiddlewares |-> <<>>,
                                    handler |-> <<"route">>,
                                    middlewares |-> <<>>,
                                    routes |-> {}]]
    /\ served = <<>>
    /\ restarts = [s \in Ships |-> 0]
    /\ funcs = <<>>
    /\ exited = 0
    /\ expc = [p \in Callers |-> [pc |-> "idle", exit |-> FALSE]]
    /\ exIdx = [p \in Callers |-> 0]
    /\ exRan = <<>>
    /\ exCalls = 0
    /\ osExited = FALSE
    /\ lnk = [p \in Linkers |-> [pc |-> "idle", s |-> "", other |-> "",
                                  seen |-> <<>>]]
    /\ made = <<>>
    /\ resolved = <<>>
    /\ vpanics = 0
    /\ cloned = [s \in Ships |-> FALSE]

Init == LifeInit /\ ReqInit /\ ExtInit /\ unborn = {}

\* Two linked dispatchers: the user registers callbacks, links and starts
\* them, signals arrive, and the goroutines run.
Next ==
    \/ \E s \in Ships : RegisterOnShutdown(s)
    \/ \E s \in Ships : \E other \in Ships \ {s} : Link(s, other)
    \/ \E s \in Ships : StartBegin(s)
    \/ \E s \in Ships : SignalShutdown(s)
    \/ \E s \in Ships : StartLinkSelf(s)
    \/ \E s \in Ships : StartLinkPeer(s)
    \/ \E s \in Ships : StartRecord(s)
    \/ \E s \in Ships : StartServed(s)
    \/ \E s \in Ships : StartDeferred(s)
    \/ \E s \in Ships : \E k \in StopIds : StopBegin(s, k)
    \/ \E s \in Ships : \E k \in StopIds : StopRun(s, k)
    \/ \E s \in Ships : \E k \in StopIds : StopCb(s, k)
    \/ \E s \in Ships : \E k \in StopIds : StopClose(s, k)

Spec == Init /\ [][Next]_vars

\* One dispatcher with its callers: callbacks are registered at any time, the
\* public Shutdown is called, and callers wait.
RunProg ==
    \/ StartRecord("X")
    \/ StartServed("X")
    \/ StartDeferred("X")
    \/ \E k \in StopIds : StopBegin("X", k)
    \/ \E k \in StopIds : StopRun("X", k)
    \/ \E k \in StopIds : StopClose("X", k)
    \/ WaitReturn("X")

RunNext ==
    \/ RegisterOnShutdown("X")
    \/ StartBegin("X")
    \/ SignalShutdown("X")
    \/ PublicShutdown("X")
    \/ WaitCall("X")
    \/ RunProg

\* A goroutine that can run is scheduled in the end.
RunSpec == Init /\ [][RunNext]_vars /\ WF_vars(RunProg)

\* One dispatcher serving requests: pre-middlewares are registered, and each
\* request is handled in a goroutine of its own.
ReqNext ==
    \/ \E n \in 0..2 : \E ms \in SeqsOf(Mws, n) : Pre(ms)
    \/ \E r \in Reqs : AcquireContext(r)
    \/ \E r \in Reqs : RunHandler(r)
    \/ \E r \in Reqs : CheckError(r)
    \/ \E r \in Reqs : ReleaseContext(r)

ReqSpec == Init /\ [][ReqNext]_vars

\* One dispatcher serving requests while routes are registered.
PoolNext ==
    \/ \E num \in 0..MaxParams : AddRoute(num)
    \/ \E r \in Reqs : AcquireContext(r)
    \/ \E r \in Reqs : RunHandler(r)
    \/ \E r \in Reqs : CheckError(r)
    \/ \E r \in Reqs : ReleaseContext(r)

PoolSpec == Init /\ [][PoolNext]_vars

\* Middlewares are registered, and routes and groups are made.
UseNext ==
    \/ \E m \in Mws : PreOf("X", m)
    \/ \E m \in Mws : UseOf("X", m)
    \/ Route("X")
    \/ RouteWithoutMiddleware("X")
    \/ \E own \in OwnMws : Group("X", own)
    \/ \E own \in OwnMws : GroupWithoutMiddleware("X", own)

UseSpec == Init /\ [][UseNext]_vars

\* Pre-middlewares, the panic middleware among them, are registered, and
\* requests are handled.
PanicNext ==
    \/ \E m \in Mws \cup {PanicMw} : Pre(<<m>>)
    \/ \E r \in Reqs : AcquireContext(r)
    \/ \E r \in Reqs : RunHandler(r)
    \/ \E r \in Reqs : CheckError(r)
    \/ \E r \in Reqs : ReleaseContext(r)

PanicSpec == Init /\ [][PanicNext]_vars

\* Routes are registered and requests reach route resolution.
RouteNext ==
    \/ \E path \in Paths : RouteOf("X", path)
    \/ \E method \in Methods : \E path \in ReqPaths :
           ResolveRoute("X", method, path)

RouteSpec == Init /\ [][RouteNext]_vars

\* Requests are served by the dispatcher and by bridges made of it.
BridgeNext ==
    \/ PoolNext
    \/ \E r \in Reqs : \E h \in BridgeHandlers : BridgeServeHTTP(r, h)

BridgeSpec == Init /\ [][BridgeNext]_vars

\* Errors reach the default error handler.
ErrNext == HandleError

ErrSpec == Init /\ [][ErrNext]_vars

\* A program that has made one dispatcher, and makes the other with VHost.
VInit == LifeInit /\ ReqInit /\ ExtInit /\ unborn = {"Y"}

\* A dispatcher and its virtual host are configured, and requests arrive.
VHostNext ==
    \/ \E s \in Ships : \E host \in Hosts : VHost(s, host)
    \/ \E s \in Ships : \E m \in Mws : PreOf(s, m)
    \/ \E s \in Ships : \E m \in Mws : UseOf(s, m)
    \/ \E s \in Ships : \E path \in Paths : RouteOf(s, path)
    \/ \E s \in Ships : \E host \in ReqHosts : ServeHTTP(s, host)

VHostSpec == VInit /\ [][VHostNext]_vars

\* Virtual hosts are made, by a dispatcher and by its virtual hosts, and
\* middlewares and routes are registered on them.
VHostsInit == LifeInit /\ ReqInit /\ ExtInit /\ unborn = {"Y", "Z"}

VHostsNext ==
    \/ \E s \in Dispatchers : \E host \in Hosts : VHost(s, host)
    \/ \E s \in Ships : \E m \in Mws : UseOf(s, m)
    \/ \E s \in Ships : \E path \in Paths : RouteOf(s, path)

VHostsSpec == VHostsInit /\ [][VHostsNext]_vars

\* A dispatcher is cloned; it and its clone are started and shut down.
CloneNext ==
    \/ Clone("X")
    \/ \E s \in Born : StartBegin(s)
    \/ \E s \in Born : SignalShutdown(s)
    \/ \E s \in Born : PublicShutdown(s)
    \/ \E s \in Born : StartRecord(s)
    \/ \E s \in Born : StartServed(s)
    \/ \E s \in Born : StartDeferred(s)
    \/ \E s \in Born : \E k \in StopIds : StopBegin(s, k)
    \/ \E s \in Born : \E k \in StopIds : StopRun(s, k)
    \/ \E s \in Born : \E k \in StopIds : StopCb(s, k)
    \/ \E s \in Born : \E k \in StopIds : StopClose(s, k)

CloneSpec == VInit /\ [][CloneNext]_vars

\* A dispatcher and its virtual host are started, and signals arrive.
VStartNext ==
    \/ \E s \in Ships : \E host \in Hosts : VHost(s, host)
    \/ \E s \in Born : StartBegin(s)
    \/ \E s \in Born : SignalShutdown(s)
    \/ \E s \in Born : StartRecord(s)
    \/ \E s \in Born : StartServed(s)
    \/ \E s \in Born : StartDeferred(s)
    \/ \E s \in Born : \E k \in StopIds : StopBegin(s, k)
    \/ \E s \in Born : \E k \in StopIds : StopClose(s, k)

VStartSpec == VInit /\ [][VStartNext]_vars

\* One dispatcher that is started, shut down and started again.
RestartNext ==
    \/ RegisterOnShutdown("X")
    \/ StartBegin("X")
    \/ StartAgain("X")
    \/ SignalShutdown("X")
    \/ PublicShutdown("X")
    \/ StartRecord("X")
    \/ StartServed("X")
    \/ StartDeferred("X")
    \/ \E k \in StopIds : StopBegin("X", k)
    \/ \E k \in StopIds : StopRun("X", k)
    \/ \E k \in StopIds : StopClose("X", k)

RestartSpec == Init /\ [][RestartNext]_vars

\* Goroutines link two dispatchers and register callbacks.
LinkNext ==
    \/ \E p \in Linkers : \E s \in Ships : \E other \in Ships \ {s} :
           LinkCall(p, s, other)
    \/ \E p \in Linkers : LinkScan(p)
    \/ \E p \in Linkers : LinkRead(p)
    \/ \E p \in Linkers : LinkWrite(p)
    \/ \E s \in Ships : RegisterOnShutdown(s)

LinkSpec == Init /\ [][LinkNext]_vars

\* Exit functions are registered, and goroutines call CallOnExit.
OnExitNext ==
    \/ \E isNil \in BOOLEAN : OnExit(isNil)
    \/ \E p \in Callers : CallBegin(p, FALSE)
    \/ \E p \in Callers : CallSwap(p)
    \/ \E p \in Callers : CallStep(p)
    \/ \E p \in Callers : CallLoopEnd(p)
    \/ \E p \in Callers : CallReturn(p)

OnExitSpec == Init /\ [][OnExitNext]_vars

\* Exit functions are registered, and goroutines call CallOnExit or Exit.
ExitNext ==
    \/ \E isNil \in BOOLEAN : OnExit(isNil)
    \/ \E p \in Callers : \E inExit \in BOOLEAN : CallBegin(p, inExit)
    \/ \E p \in Callers : CallSwap(p)
    \/ \E p \in Callers : CallStep(p)
    \/ \E p \in Callers : CallLoopEnd(p)
    \/ \E p \in Callers : CallReturn(p)
    \/ \E p \in Callers : OsExit(p)

ExitSpec == Init /\ [][ExitNext]_vars

\* ------------------------------------------------------------------ claims
\* How many times runStop of s has invoked the callback at index i.
Invocations(s, i) == Cardinality({a \in 1..Len(ranLog[s]) : ranLog[s][a] = i})

\* C1: whenever the shutdown trigger has been invoked on a started dispatcher
\* and the program has come to rest, every callback registered before the
\* trigger has run exactly once; and no callback ever runs twice.
C1_CallbacksRunExactlyOnce ==
    \A s \in Ships : \A i \in 1..Len(stopfs[s]) :
        /\ Invocations(s, i) <= 1
        /\ (trigStarted[s] /\ stopfs[s][i].pre /\ Quiescent)
               => Invocations(s, i) = 1

C3_TriggerInitiatesShutdown ==
    \A s \in Ships :
        (trigStarting[s] /\ server[s] # 0 /\ Quiescent) => inShutdown[s]

\* C4: the trigger calls server.Shutdown at most once per dispatcher, and
\* once the gate has been passed it stays passed and no later invocation
\* calls server.Shutdown.
C4_OneShotGate ==
    /\ [](\A s \in Ships : trigShut[s] <= 1)
    /\ [][\A s \in Ships :
            once1[s] => (once1'[s] /\ trigShut'[s] = trigShut[s]
                         /\ (inShutdown'[s] = inShutdown[s] \/ pubCalls' # pubCalls))]_vars

\* Both the signal handler and Start's deferred call have invoked the
\* trigger of one dispatcher, and server.Shutdown was called through it.
C4_Witness ==
    \E s \in Ships : startpc[s] = "done" /\ sigpc[s] = "done" /\ trigShut[s] = 1

\* C5: when two dispatchers were linked before they were started, both have
\* recorded their servers, the shutdown of one has been initiated and the
\* program has come to rest, the trigger has initiated the shutdown of the
\* other exactly once.
C5_LinkedShutdownPropagates ==
    \A s \in Ships : \A t \in Ships \ {s} :
        (/\ linkLen[s] = 1 /\ linkLen[t] = 1
         /\ server[s] # 0 /\ server[t] # 0
         /\ inShutdown[s]
         /\ Quiescent) => trigShut[t] = 1

\* C6: a dispatcher's callback list holds the trigger of its peer at most
\* once.
C6_LinkRegistersOnce ==
    \A s \in Ships : \A t \in Ships :
        Cardinality({i \in 1..Len(stopfs[s]) :
                        stopfs[s][i].kind = "trigger" /\ stopfs[s][i].ship = t}) <= 1

\* C7: Wait returns only after the channel was closed, by when every
\* callback registered before the callback run was entered has been invoked
\* and has returned; the channel is closed exactly once, when the run ends;
\* and once it is closed every caller of Wait returns.
C7_WaitAfterCallbacks ==
    /\ [](\A s \in Ships :
            /\ done[s] <= 1
            /\ once2[s] = "done" <=> done[s] = 1
            /\ returned[s] > 0 =>
                /\ done[s] = 1
                /\ \A i \in 1..Len(stopfs[s]) :
                       ~stopfs[s][i].late => Invocations(s, i) = 1)
    /\ \A s \in Ships : (done[s] = 1) ~> (waiting[s] = 0)

\* Two callers of Wait have returned after two callbacks ran.
C7_Witness ==
    returned["X"] = 2 /\ Len(ranLog["X"]) = 2

\* The behaviour in which every layer calls the next and returns its error.
AllPass == [x \in Mws \cup {"route"} |-> IF x = "route" THEN "ok" ELSE "pass"]

\* C8: the root handler is the onion of the pre-middlewares, in registration
\* order, around route resolution, however many Pre calls registered them:
\* on entry the layers are called in registration order, then route
\* resolution, and they return in the reverse order.
C8_PreOnion ==
    LET n == Len(premiddlewares) IN
    /\ handler = premiddlewares \o <<"route">>
    /\ Handle(handler, AllPass).trace =
           [i \in 1..n |-> "in_" \o premiddlewares[i]] \o <<"route">>
           \o [i \in 1..n |-> "out_" \o premiddlewares[n + 1 - i]]

\* Pre(A) and then Pre(B) have been called.
C8_Witness == premiddlewares = <<"A", "B">> /\ preCalls = 2

\* C9: the error handler is called at most once per request; when the
\* pipeline has returned it is called exactly when the returned error or the
\* context's error slot is not nil, and with the returned error when that is
\* not nil.
C9_ErrorHandlerOnce ==
    \A r \in Reqs :
        /\ reqs[r].errCalls <= 1
        /\ reqs[r].errCalls = 1 =>
               /\ reqs[r].errArg # Nil
               /\ reqs[r].errArg =
                      IF reqs[r].ret # Nil THEN reqs[r].ret ELSE reqs[r].slot
        /\ (reqs[r].pc \in {"release", "done"} /\ reqs[r].errCalls = 0) =>
               (reqs[r].ret = Nil /\ reqs[r].slot = Nil)

\* A request whose pipeline returned an error and left another in the
\* context has been handled.
C9_Witness ==
    \E r \in Reqs :
        /\ reqs[r].pc = "done"
        /\ reqs[r].ret # Nil
        /\ reqs[r].slot # Nil
        /\ reqs[r].errCalls = 1

\* C10: when the handling of a request has ended, by a return or by a panic,
\* its context has been released exactly once.
C10_ContextReleased ==
    \A r \in Reqs :
        reqs[r].pc \in {"done", "panicked"} => reqs[r].released = 1

\* The requests that hold a context: between AcquireContext and
\* ReleaseContext.
InFlight == {r \in Reqs : reqs[r].pc \in {"handle", "check", "release"}}

\* C11: a context is held by at most one request in flight and is not in the
\* pool meanwhile; it is bound to the request that holds it and holds no
\* parameters or store entries of another request; and when AcquireContext
\* hands it out its parameters, store and error slot are clear.
C11_ContextIsolation ==
    \A r \in InFlight :
        LET c == reqs[r].ctx IN
        /\ c \notin pool
        /\ \A r2 \in InFlight \ {r} : reqs[r2].ctx # c
        /\ ctxs[c].req = r
        /\ ctxs[c].data \in {0, r}
        /\ reqs[r].pc = "handle" => (ctxs[c].data = 0 /\ ctxs[c].err = Nil)

\* A request has been handed the context that another request used,
\* left an error in and released.
C11_Witness ==
    \E r \in Reqs : \E r2 \in Reqs \ {r} :
        /\ reqs[r].pc = "done" /\ reqs[r].slot # Nil
        /\ reqs[r2].pc = "handle"
        /\ reqs[r2].ctx = reqs[r].ctx

ErrCalls == {errLog[i] : i \in 1..Len(errLog)}

ClassRules(c) ==
    /\ (400 <= c.err.code /\ c.err.code < 500) =>
        /\ c.out.writes[1].body = c.err.text
        /\ c.out.logs = <<>>
    /\ c.err.code >= 500 =>
        /\ Len(c.out.logs) = 1
        /\ c.debug => c.out.writes[1].body = c.err.text

\* C13 as stated: besides, outside debug mode the body for a server-class
\* error does not depend on the error: two such errors with one code get
\* the same body.
C13_ServerBodyGeneric ==
    /\ \A c \in ErrCalls : c.err.class = "http" => ClassRules(c)
    /\ \A c, d \in ErrCalls :
        (/\ c.err.class = "http" /\ d.err.class = "http"
         /\ c.err.code >= 500 /\ d.err.code = c.err.code
         /\ ~c.debug /\ ~d.debug)
            => c.out.writes[1].body = d.out.writes[1].body

\* C13 amended: besides, outside debug mode the body for a server-class
\* error is the error's Message(), whatever its Error() is.
C13_ServerBodyIsMessage ==
    \A c \in ErrCalls : c.err.class = "http" =>
        /\ ClassRules(c)
        /\ (c.err.code >= 500 /\ ~c.debug) => c.out.writes[1].body = c.err.msg

\* A server-class error whose Error() is not its Message() has been handled
\* outside debug mode, and another in debug mode.
C13_Witness ==
    /\ \E c \in ErrCalls : /\ c.err.class = "http" /\ c.err.code >= 500
                            /\ ~c.debug /\ c.err.msg # c.err.text
    /\ \E c \in ErrCalls : c.err.class = "http" /\ c.err.code >= 500 /\ c.debug

\* C14: for the skip sentinel the handler writes no response and makes no
\* log entry, and for every error it writes at most one response.
C14_SkipIsSilent ==
    \A c \in ErrCalls :
        /\ Len(c.out.writes) <= 1
        /\ c.err = ErrSkip => (c.out.writes = <<>> /\ c.out.logs = <<>>)

\* The skip sentinel has been handled.
C14_Witness == \E c \in ErrCalls : c.err = ErrSkip

\* C15: a request whose Host names a registered virtual host is handled by
\* that virtual host: with its pool, its router and routes, its not-found
\* handler and its chain of pre-middlewares around route resolution, in which
\* there is no pre-middleware given to the parent; a request whose Host
\* names none is handled by the dispatcher itself. A dispatcher's
\* pre-middlewares, global middlewares and routes are those given to it:
\* a step changes those of one dispatcher at most, and nothing given to one
\* dispatcher is ever among those of another.
C15_VHostIsolation ==
    /\ [](\A i \in 1..Len(served) :
            LET e == served[i]
                d == IF e.vhost # NoShip THEN e.vhost ELSE e.on
            IN  /\ e.call.by = d /\ e.call.pool = d /\ e.call.notfound = d
                /\ e.call.router = d
                /\ e.call.routes \subseteq {Tag(d, path) : path \in Paths}
                /\ e.call.layers = e.pre[d] \o <<"route">>
                /\ \A j \in 1..Len(e.call.layers) :
                       e.call.layers[j] \in {Tag(d, m) : m \in Mws} \cup {"route"})
    /\ [](\A s \in Ships :
            /\ \A j \in 1..Len(pipeline[s].premiddlewares) :
                   pipeline[s].premiddlewares[j] \in {Tag(s, m) : m \in Mws}
            /\ \A j \in 1..Len(pipeline[s].middlewares) :
                   pipeline[s].middlewares[j] \in {Tag(s, m) : m \in Mws}
            /\ pipeline[s].routes \subseteq {Tag(s, path) : path \in Paths}
            /\ pipeline[s].handler = pipeline[s].premiddlewares \o <<"route">>)
    /\ [][\A s \in Ships : \A x \in Ships \ {s} :
            pipeline'[s] # pipeline[s] => pipeline'[x] = pipeline[x]]_vars

\* A request for a virtual host has been handled while the parent and the
\* virtual host each had pre-middlewares, global middlewares and routes.
C15_Witness ==
    /\ \E i \in 1..Len(served) :
           served[i].vhost # NoShip /\ served[i].on # served[i].vhost
    /\ \A s \in Ships :
           /\ pipeline[s].premiddlewares # <<>>
           /\ pipeline[s].middlewares # <<>>
           /\ pipeline[s].routes # {}

\* C16: a virtual host never records a server, never listens, never has a
\* signal goroutine, and its Start registers no shutdown callback, on it or
\* for it.
C16_VHostNeverBinds ==
    \A s \in Ships : vhosts[s].nil =>
        /\ server[s] = 0
        /\ startpc[s] \in {"idle", "deferred", "done"}
        /\ sigpc[s] = "off"
        /\ ~inShutdown[s] /\ spawned[s] = 0
        /\ \A x \in Ships : stopfs[x] = <<>>

\* Start on a virtual host has returned while its parent serves.
C16_Witness ==
    \E s \in Ships : \E x \in Ships :
        vhosts[s].nil /\ startpc[s] = "done" /\ startpc[x] = "serving"

\* How many times the exit function at index i has been run.
ExitRuns(i) == Cardinality({a \in 1..Len(exRan) : exRan[a] = i})

\* The functions the claims are about: not nil, and registered before the
\* first call of CallOnExit or Exit began.
EarlyFuncs == {i \in 1..Len(funcs) : funcs[i].fn # 0 /\ funcs[i].early}

\* C18: however often and by however many goroutines CallOnExit is called,
\* no exit function runs twice, the functions run in the reverse of their
\* registration order, and once the call that ran them has left its loop
\* every function that is not nil and was registered before the first call
\* has run exactly once.
C18_ExitFunctionsOnceReversed ==
    /\ \A i \in 1..Len(funcs) : ExitRuns(i) <= 1
    /\ \A a, b \in 1..Len(exRan) : a < b => exRan[a] > exRan[b]
    /\ (exited = 1 /\ \A p \in Callers : expc[p].pc # "loop") =>
           \A i \in EarlyFuncs : ExitRuns(i) = 1

\* Three calls by two goroutines have returned and two functions have run.
C18_Witness ==
    /\ exCalls = 3
    /\ \A p \in Callers : expc[p].pc = "idle"
    /\ Len(exRan) = 2

\* C19: when os.Exit has been called, every exit function that is not nil
\* and was registered before the first call has run.
C19_ExitAfterFunctions ==
    osExited => \A i \in EarlyFuncs : ExitRuns(i) = 1

\* C20: a Start on a dispatcher that has a server recorded does not replace
\* the server, and when it has returned the dispatcher's lock is not held.
C20_RestartLeavesLockFree ==
    \A s \in Ships :
        /\ server[s] <= 1
        /\ (restarts[s] > 0 /\ startpc[s] = "done") =>
               (~lock[s].w /\ lock[s].r = 0)

\* C21: concurrent Link and RegisterOnShutdown calls lose no entry and make
\* no duplicate: no dispatcher is twice among the peers of another, when the
\* Link calls have returned each dispatcher linked is among the peers of the
\* other, and every callback registered is in the callback list.
C21_ListsKeptConsistent ==
    /\ \A s \in Ships : \A i, j \in 1..Len(links[s]) :
           i # j => links[s][i] # links[s][j]
    /\ \A p \in Linkers : lnk[p].pc = "done" =>
           (IsLinked(lnk[p].s, lnk[p].other) /\ IsLinked(lnk[p].other, lnk[p].s))
    /\ Len(stopfs["X"]) + Len(stopfs["Y"]) = nextFn - 1

\* C27: the public Shutdown of a dispatcher with no recorded server returns
\* the error "the server has not been started" and changes nothing of the
\* dispatcher: gate, callbacks run, completion signal, server state; and
\* after that error a server shut down later still reaches completion.
C27_ShutdownBeforeStartIsNoOp ==
    /\ [][(pubCalls' = pubCalls + 1 /\ server["X"] = 0) =>
            /\ lastShutdown' = [on |-> "X", err |-> "not started"]
            /\ UNCHANGED <<once1, once2, done, inShutdown, spawned, stopfs,
                           server, ranLog, trigShut, links>>]_vars
    /\ [][(pubCalls' = pubCalls + 1 /\ server["X"] # 0) =>
            lastShutdown'.err = "nil"]_vars
    /\ (lastShutdown.err = "not started" /\ inShutdown["X"]) ~> (done["X"] = 1)

\* The public Shutdown returned the error, and the server started after it
\* has been shut down by a trigger, with the completion signal released.
C27_Witness ==
    /\ lastShutdown = [on |-> "X", err |-> "not started"]
    /\ inShutdown["X"]
    /\ done["X"] = 1

\* C25: VHost on a virtual host, and VHost with a host already registered,
\* panic and leave every mapping as it was: a host registered is never
\* mapped again and a virtual host never gets a mapping; each host
\* registered maps to a dispatcher that is a virtual host without virtual
\* hosts of its own, and no two hosts map to the same dispatcher.
C25_VHostRejectsAndKeepsMapping ==
    /\ [][
           /\ \A s \in Dispatchers : \A host \in Hosts :
                 vhosts[s].m[host] # NoShip =>
                     vhosts'[s].m[host] = vhosts[s].m[host]
           /\ \A s \in Dispatchers : vhosts[s].nil => vhosts'[s] = vhosts[s]
           /\ vpanics' # vpanics => (vhosts' = vhosts /\ unborn' = unborn)
           /\ vhosts' # vhosts => vpanics' = vpanics]_vars
    /\ [](\A s \in Dispatchers : \A host \in Hosts :
            LET v == vhosts[s].m[host] IN
            v # NoShip =>
                /\ v \in Dispatchers \ unborn
                /\ vhosts[v].nil
                /\ \A h \in Hosts : vhosts[v].m[h] = NoShip
                /\ \A x \in Dispatchers : \A h \in Hosts :
                       vhosts[x].m[h] = v => (x = s /\ h = host))

\* Two hosts are registered, and a further VHost call has panicked.
C25_Witness ==
    /\ \A host \in Hosts : vhosts["X"].m[host] # NoShip
    /\ vpanics > 0

\* C26: a clone never has a signal goroutine and has no callback that is a
\* trigger; the parent has one callback that is the clone's trigger, which
\* is invoked at most once, and exactly once, passing the clone's gate, when
\* the parent's callbacks have run; the parent's shutdown never begins in a
\* step of the clone's callback run.
C26_CloneShutsDownWithParent ==
    /\ [](\A s \in Ships : cloned[s] =>
            /\ sigpc[s] = "off"
            /\ links[s] = <<>>
            /\ \A i \in 1..Len(stopfs[s]) : stopfs[s][i].kind # "trigger"
            /\ \E x \in Ships \ {s} :
                   Cardinality({i \in 1..Len(stopfs[x]) :
                                   stopfs[x][i].ship = s}) = 1)
    /\ [](\A s \in Ships : \A i \in 1..Len(stopfs[s]) :
            stopfs[s][i].kind = "trigger" =>
                /\ cloned[stopfs[s][i].ship]
                /\ Invocations(s, i) <= 1
                /\ (once2[s] = "done" /\ ~stopfs[s][i].late) =>
                       (Invocations(s, i) = 1 /\ once1[stopfs[s][i].ship]))
    /\ [][\A s \in Ships : \A x \in Ships \ {s} :
            (cloned[s] /\ inShutdown'[x] # inShutdown[x]) =>
                (stoppc'[s] = stoppc[s] /\ startpc'[s] = startpc[s])]_vars

\* The clone was serving when the parent's callbacks ran, which have shut
\* it down through its trigger.
C26_Witness ==
    /\ cloned["Y"]
    /\ once2["X"] = "done"
    /\ Invocations("X", 1) = 1
    /\ trigShut["Y"] = 1
    /\ lastShutdown.on = ""
    /\ startpc["Y"] = "done"

\* C28: when ServeHTTP of a bridge has returned, the context it acquired has
\* been released once and is in the pool or with a later request.
C28_BridgeReleasesContext ==
    \A r \in Reqs : reqs[r].pc = "bridged" =>
        /\ reqs[r].released = 1
        /\ \/ reqs[r].ctx \in pool
           \/ \E r2 \in Reqs \ {r} : reqs[r2].ctx = reqs[r].ctx

\* C24: for a request that reaches route resolution, Find is called once,
\* with the method and the path of the request, and one terminal handler
\* runs: the handler registered for the method and path when there is one,
\* else the not-found handler; what that handler returns is returned.
C24_OneTerminalHandler ==
    \A i \in 1..Len(resolved) :
        LET e == resolved[i]
            hit == /\ e.req.method = RouteMethod
                   /\ Tag(e.on, e.req.path) \in e.routes
        IN  /\ e.res.finds = <<e.req>>
            /\ Len(e.res.ran) = 1
            /\ hit => (e.res.ran[1] = Tag(e.on, e.req.path) /\ e.res.ret = e.hret)
            /\ ~hit => (e.res.ran[1] = "notfound" /\ e.res.ret = e.nfret)

\* One request found its route, whose handler returned an error, and one
\* request found none, the not-found handler returning an error.
C24_Witness ==
    \E i, j \in 1..Len(resolved) :
        /\ resolved[i].res.ran[1] \notin {"notfound", NoHandler}
        /\ resolved[i].res.ret = "E_route"
        /\ resolved[j].res.ran[1] = "notfound"
        /\ resolved[j].res.ret = "E_notfound"
        /\ resolved[j].routes # {}

\* C23: a route or group made from the dispatcher has the global middlewares
\* registered before it was made, in their order, followed by its own (and
\* only its own for the variants without middlewares), and keeps exactly
\* these whatever Use registers later; a call of Use changes neither the
\* routes and groups made nor the pre-middlewares and the root handler.
C23_RouteMiddlewaresFixed ==
    /\ [](\A i \in 1..Len(made) :
            LET r == made[i] IN
            /\ r.e.mws = (IF r.inherits THEN r.before ELSE <<>>) \o r.own
            /\ Middlewares(r.e) = r.e.mws)
    /\ [][/\ Len(made') >= Len(made)
           /\ SubSeq(made', 1, Len(made)) = made]_vars
    /\ [][\A s \in Ships :
            pipeline'[s].middlewares # pipeline[s].middlewares =>
                /\ pipeline'[s].handler = pipeline[s].handler
                /\ pipeline'[s].premiddlewares = pipeline[s].premiddlewares
                /\ made' = made]_vars

\* A route and a group with a middleware of its own were made after one
\* Use, a second Use came after them, and the root handler has a
\* pre-middleware.
C23_Witness ==
    /\ Len(made) = 2
    /\ made[1].e.kind = "route" /\ made[1].e.shared
    /\ made[2].e.kind = "group" /\ made[2].inherits /\ made[2].own # <<>>
    /\ Len(made[1].before) = 1 /\ Len(made[2].before) = 1
    /\ Len(pipeline["X"].middlewares) = 2
    /\ Len(pipeline["X"].handler) > 1

\* The places of the panic middleware in the root handler.
PanicLayers == {k \in 1..Len(handler) : handler[k] = PanicMw}

\* C22: for the root handler at hand and every behaviour of its layers, a
\* panic in what an installed panic middleware wraps is recovered there: the
\* panic handler is called once, with the value of the panic, nil is
\* returned and the panic goes no further; without a panic the wrapped
\* call's error is returned as it is and the panic handler is not called.
\* A request whose panic was recovered goes on in handleRequest: the error
\* handler is called only for an error in the context's slot, and the
\* context is released once; with the panic middleware outermost no panic
\* of the pipeline leaves handleRequest.
C22_PanicRecovered ==
    /\ [](\A k \in PanicLayers : \A b \in Behaviours :
            LET inner == Handle(SubSeq(handler, k + 1, Len(handler)), b)
                whole == Handle(SubSeq(handler, k, Len(handler)), b)
            IN  /\ ~whole.panic
                /\ whole.slot = inner.slot
                /\ inner.panic =>
                       /\ whole.ret = Nil
                       /\ PanicCalls(whole.trace) = 1
                       /\ whole.trace[Len(whole.trace) - 1] =
                              "handlePanic:" \o inner.trace[Len(inner.trace)]
                /\ ~inner.panic =>
                       /\ whole.ret = inner.ret
                       /\ PanicCalls(whole.trace) = PanicCalls(inner.trace))
    /\ [](\A r \in Reqs : reqs[r].recovered > 0 =>
            /\ reqs[r].ret = Nil
            /\ reqs[r].errCalls = (IF reqs[r].slot # Nil /\ reqs[r].pc # "check"
                                   THEN 1 ELSE 0)
            /\ reqs[r].errCalls > 0 => reqs[r].errArg = reqs[r].slot
            /\ reqs[r].pc = "panicked" => reqs[r].errCalls = 1
            /\ reqs[r].pc = "done" =>
                   (reqs[r].released = 1 /\ ctxs[reqs[r].ctx].req # r))
    /\ [][\A r \in Reqs :
            (reqs[r].pc = "handle" /\ reqs'[r].pc # "handle"
             /\ handler[1] = PanicMw) => reqs'[r].pc = "check"]_vars

\* Behind the panic middleware a request whose route handler panicked is
\* done, its context released and the error handler not called, and one
\* that set the error slot before it panicked had the error handler called.
C22_Witness ==
    /\ handler[1] = PanicMw
    /\ \E r \in Reqs : \E r2 \in Reqs \ {r} :
           /\ reqs[r].recovered = 1 /\ reqs[r].pc = "done"
           /\ reqs[r].errCalls = 0 /\ reqs[r].released = 1
           /\ reqs[r2].recovered = 1 /\ reqs[r2].pc = "done"
           /\ reqs[r2].errCalls = 1 /\ reqs[r2].released = 1

====
